---- MODULE Spec2Model ----
(***************************************************************************)
(* Model of the boundary-analysis core of quad_patch.py:                   *)
(*   getEdgeRingGroupList        (edge ring reconstruction)                *)
(*   vtxLoopOrderCheck           (ordering of one ring into a vertex loop) *)
(*   segmentsPositions_adaptive  (closed-loop corner segmenter)            *)
(*   segmentsAdaptiveOpen        (open-loop corner segmenter)              *)
(*   segmentsPositions           (split of a loop from a given first side) *)
(*   checkFlatLoop               (flatness test of an open loop)           *)
(*   instantQPatch, instantQPatchOpen  (the two handlers' control flow)    *)
(*                                                                         *)
(* An edge selection is a sequence of endpoint pairs <<v1, v2>>: the       *)
(* position of a pair in the sequence is the edge's id and also its place  *)
(* in the iteration order (dict insertion order of e2v, list order of      *)
(* edgeNumberList); the order inside a pair is the order in which the      *)
(* host's edge->vertex query lists the two endpoints.  The code handles    *)
(* ids as decimal strings ('12') or as ints parsed from them; both         *)
(* conversions are one-to-one on ids, so ids are naturals here and the     *)
(* code's string comparisons are comparisons of naturals.                  *)
(***************************************************************************)
EXTENDS Integers, Sequences, FiniteSets, TLC

(* ------------------------------ bounds --------------------------------- *)
MaxEdges == 4
MaxVerts == 5
MaxN == 7
MaxRegularN == 13
MaxTeardropN == 24
MaxCornerN == 12

(* ------------------------- program constants --------------------------- *)
IterCap == 1000

VARIABLES
  selEdges,           \* the edge selection handed to the function
  e2v, v2e,           \* getEdgeRingGroupList: edge->endpoints, vertex->edges
  groups, ring,       \* rings finished so far, ring under construction
  keyIdx,             \* position in list(e2v.keys())
  dirIdx, current,    \* walk direction (1: append from v2, 2: prepend from v1)
  seedVerts,          \* (v1, v2) of the seed edge
  walkSteps,          \* iterations of the inner while that consumed an edge
  result, pcR,
  edgeNumberList, dup, getHeadTail, checkCircleState,
  vftOrder, count, outcome, pcO,
  angle,              \* segmentsPositions_adaptive: angle (degrees) per index
  similarity_threshold, corner_threshold,
  corner_idxs, init_segments, segments, pcS,
  sharp, pcA,         \* segmentsAdaptiveOpen: the sharp interior indices
  vtx_list, initial_verts, pcP,          \* segmentsPositions: its arguments
  flat_threshold, angles, isFlat, pcF,   \* checkFlatLoop
  handler,            \* which of instantQPatch / instantQPatchOpen runs
  selCount,           \* len(selEdge)
  checkLoopSize,      \* len(checkLoopSize), 0 before getEdgeRingGroupList ran
  getCircleState, flatState,
  listLen,            \* length of the list vtxLoopOrderCheck returned last
  amount,             \* edge count of the closed loop, 0 until it is assigned
  segments_pos,       \* len(segments_pos)
  curves,             \* len(curves)
  calls,              \* the callees and host commands invoked so far, in order
  status, pcQ

ringVars == <<e2v, v2e, groups, ring, keyIdx, dirIdx, current, seedVerts,
              walkSteps, result, pcR>>
orderVars == <<edgeNumberList, dup, getHeadTail, checkCircleState,
               vftOrder, count, outcome, pcO>>
segVars == <<angle, similarity_threshold, corner_threshold,
             corner_idxs, init_segments, segments, pcS>>
openVars == <<sharp, pcA>>
posVars == <<vtx_list, initial_verts, pcP>>
flatVars == <<flat_threshold, angles, isFlat, pcF>>
patchVars == <<handler, selCount, checkLoopSize, getCircleState, flatState,
               listLen, amount, segments_pos, curves, calls, status, pcQ>>
otherVars == <<openVars, posVars, flatVars, patchVars>>
vars == <<selEdges, ringVars, orderVars, segVars, otherVars>>

(* ------------------------------ helpers -------------------------------- *)
Range(s) == {s[i] : i \in DOMAIN s}

Max2(a, b) == IF a >= b THEN a ELSE b

SetMax(S) == CHOOSE m \in S : \A x \in S : x <= m

Ends(E, e) == {E[e][1], E[e][2]}

VertsOf(E) == UNION {Ends(E, e) : e \in DOMAIN E}

Incident(E, v) == {e \in DOMAIN E : v \in Ends(E, e)}

Degree(E, v) == Cardinality(Incident(E, v))

Joined(E, a, b) == \E e \in DOMAIN E : Ends(E, e) = {a, b}

RECURSIVE Flatten(_)
Flatten(ss) == IF ss = <<>> THEN <<>> ELSE Head(ss) \o Flatten(Tail(ss))

RECURSIVE Reach(_, _)
Reach(E, S) ==
  LET T == S \cup {v \in VertsOf(E) : \E u \in S : Joined(E, u, v)}
  IN IF T = S THEN S ELSE Reach(E, T)

Components(E) == {Reach(E, {v}) : v \in VertsOf(E)}

Connected(E) == Cardinality(Components(E)) = 1

MaxDegree2(E) == \A v \in VertsOf(E) : Degree(E, v) <= 2

HasBranch(E) == \E v \in VertsOf(E) : Degree(E, v) >= 3

(* Edge lists of exactly k edges: no self loop, no edge twice, vertices    *)
(* numbered in order of first appearance.  The code uses vertex ids only   *)
(* as dict keys and set members, so renaming vertices changes no outcome.  *)
RECURSIVE EdgeLists(_)
EdgeLists(k) ==
  IF k = 0 THEN {<<>>}
  ELSE UNION {
         LET m == IF s = <<>> THEN 0 ELSE SetMax(VertsOf(s)) IN
         {Append(s, <<a, b>>) :
            <<a, b>> \in {p \in (1..MaxVerts) \X (1..MaxVerts) :
                            /\ p[1] # p[2]
                            /\ p[1] <= m + 1
                            /\ p[2] <= Max2(m, p[1]) + 1
                            /\ ~ Joined(s, p[1], p[2])}}
         : s \in EdgeLists(k - 1)}

SmallSelections == UNION {EdgeLists(k) : k \in 0..MaxEdges}

(* ----------------------- getEdgeRingGroupList -------------------------- *)
RingIdle ==
  /\ e2v = <<>> /\ v2e = <<>> /\ groups = <<>> /\ ring = <<>>
  /\ keyIdx = 0 /\ dirIdx = 0 /\ current = 0 /\ seedVerts = <<0, 0>>
  /\ walkSteps = 0 /\ result = <<>> /\ pcR = "idle"

OrderIdle ==
  /\ edgeNumberList = <<>> /\ dup = {} /\ getHeadTail = <<>>
  /\ checkCircleState = 0 /\ vftOrder = <<>> /\ count = 0
  /\ outcome = "none" /\ pcO = "idle"

SegIdle ==
  /\ angle = <<>> /\ similarity_threshold = 0 /\ corner_threshold = 0
  /\ corner_idxs = <<>> /\ init_segments = <<>> /\ segments = <<>>
  /\ pcS = "idle"

OpenIdle == sharp = {} /\ pcA = "idle"

PosIdle == vtx_list = <<>> /\ initial_verts = <<>> /\ pcP = "idle"

FlatIdle == flat_threshold = 0 /\ angles = <<>> /\ isFlat = 0 /\ pcF = "idle"

PatchIdle ==
  /\ handler = "none" /\ selCount = 0 /\ checkLoopSize = 0
  /\ getCircleState = 0 /\ flatState = 0 /\ listLen = 0 /\ amount = 0
  /\ segments_pos = 0 /\ curves = 0 /\ calls = <<>>
  /\ status = "none" /\ pcQ = "idle"

OtherIdle == OpenIdle /\ PosIdle /\ FlatIdle /\ PatchIdle

PopEdgeKeep(m, e) == m

PopEdge(m, e) == [k \in DOMAIN m \ {e} |-> m[k]]

Discard(m, a, b, e) ==
  [v \in DOMAIN m |-> IF v \in {a, b} THEN m[v] \ {e} ELSE m[v]]

WalkStartsSame(v1, v2) == <<v2, v2>>

(* ((v2, False), (v1, True)) *)
WalkStarts(v1, v2) == <<v2, v1>>

InitRing ==
  /\ selEdges \in SmallSelections
  /\ e2v = <<>> /\ v2e = <<>> /\ groups = <<>> /\ ring = <<>>
  /\ keyIdx = 0 /\ dirIdx = 0 /\ current = 0 /\ seedVerts = <<0, 0>>
  /\ walkSteps = 0 /\ result = <<>> /\ pcR = "start"
  /\ OrderIdle /\ SegIdle /\ OtherIdle

(* if not selEdges: return [] *)
RingEmpty ==
  /\ pcR = "start" /\ selEdges = <<>>
  /\ result' = <<>> /\ pcR' = "done"
  /\ UNCHANGED <<selEdges, otherVars, e2v, v2e, groups, ring, keyIdx, dirIdx, current,
                 seedVerts, walkSteps, orderVars, segVars>>

(* the loop over infos that fills e2v and v2e *)
RingBuild ==
  /\ pcR = "start" /\ selEdges # <<>>
  /\ e2v' = [e \in DOMAIN selEdges |-> selEdges[e]]
  /\ v2e' = [v \in VertsOf(selEdges) |-> Incident(selEdges, v)]
  /\ keyIdx' = 1 /\ pcR' = "seed"
  /\ UNCHANGED <<selEdges, otherVars, groups, ring, dirIdx, current, seedVerts,
                 walkSteps, result, orderVars, segVars>>

(* for start in list(e2v.keys()): verts is None -> continue *)
RingSeedSkip ==
  /\ pcR = "seed" /\ keyIdx <= Len(selEdges)
  /\ keyIdx \notin DOMAIN e2v
  /\ keyIdx' = keyIdx + 1
  /\ UNCHANGED <<selEdges, otherVars, e2v, v2e, groups, ring, dirIdx, current,
                 seedVerts, walkSteps, result, pcR, orderVars, segVars>>

(* pop the seed, start the first walk direction *)
RingSeed ==
  /\ pcR = "seed" /\ keyIdx <= Len(selEdges)
  /\ keyIdx \in DOMAIN e2v
  /\ LET v1 == e2v[keyIdx][1]
         v2 == e2v[keyIdx][2]
     IN /\ e2v' = PopEdge(e2v, keyIdx)
        /\ v2e' = Discard(v2e, v1, v2, keyIdx)
        /\ ring' = <<keyIdx>>
        /\ seedVerts' = <<v1, v2>>
        /\ dirIdx' = 1
        /\ current' = WalkStarts(v1, v2)[1]
  /\ pcR' = "walk"
  /\ UNCHANGED <<selEdges, otherVars, groups, keyIdx, walkSteps, result,
                 orderVars, segVars>>

(* one iteration of the inner while True that consumes an edge *)
RingWalkStep ==
  /\ pcR = "walk"
  /\ Cardinality(v2e[current]) = 1
  /\ LET nxt == CHOOSE e \in v2e[current] : TRUE IN
       /\ nxt \in DOMAIN e2v
       /\ LET a == e2v[nxt][1]
              b == e2v[nxt][2]
          IN /\ e2v' = PopEdge(e2v, nxt)
             /\ v2e' = Discard(v2e, a, b, nxt)
             /\ ring' = IF dirIdx = 2 THEN <<nxt>> \o ring
                                      ELSE Append(ring, nxt)
             /\ current' = IF a = current THEN b ELSE a
  /\ walkSteps' = walkSteps + 1
  /\ UNCHANGED <<selEdges, otherVars, groups, keyIdx, dirIdx, seedVerts, result, pcR,
                 orderVars, segVars>>

(* the two breaks of the inner while; after the second direction the ring  *)
(* is appended to groups and the for loop moves to the next key            *)
RingWalkBreak ==
  /\ pcR = "walk"
  /\ LET one == Cardinality(v2e[current]) = 1
         nxt == CHOOSE e \in v2e[current] : TRUE
         gone == one /\ nxt \notin DOMAIN e2v
     IN /\ (~ one) \/ gone
        /\ v2e' = IF gone THEN [v2e EXCEPT ![current] = {}] ELSE v2e
  /\ IF dirIdx = 1
       THEN /\ dirIdx' = 2
            /\ current' = WalkStarts(seedVerts[1], seedVerts[2])[2]
            /\ UNCHANGED <<groups, keyIdx, pcR>>
       ELSE /\ groups' = Append(groups, ring)
            /\ keyIdx' = keyIdx + 1
            /\ pcR' = "seed"
            /\ UNCHANGED <<dirIdx, current>>
  /\ UNCHANGED <<selEdges, otherVars, e2v, ring, seedVerts, walkSteps, result,
                 orderVars, segVars>>

(* result = [[f"{transform}.e[{e}]" for e in ring] for ring in groups]:    *)
(* the formatted name of an edge is determined by, and determines, its id  *)
RingFinish ==
  /\ pcR = "seed" /\ keyIdx > Len(selEdges)
  /\ result' = groups
  /\ pcR' = "done"
  /\ UNCHANGED <<selEdges, otherVars, e2v, v2e, groups, ring, keyIdx, dirIdx, current,
                 seedVerts, walkSteps, orderVars, segVars>>

NextRing ==
  \/ RingEmpty \/ RingBuild \/ RingSeedSkip \/ RingSeed
  \/ RingWalkStep \/ RingWalkBreak \/ RingFinish

SpecRing == InitRing /\ [][NextRing]_vars

(* ---------------- properties of getEdgeRingGroupList ------------------- *)

(* C1: when getEdgeRingGroupList has returned, every input edge occurs     *)
(* exactly once in the concatenation of the returned rings (so the ring    *)
(* lengths sum to the number of input edges), branching input included.    *)
RingsPartitionEdges ==
  pcR = "done" =>
    LET f == Flatten(result) IN
      /\ Len(f) = Len(selEdges)
      /\ \A e \in DOMAIN selEdges :
            Cardinality({i \in DOMAIN f : f[i] = e}) = 1

RingsPartitionEdgesWitness ==
  /\ pcR = "done" /\ HasBranch(selEdges)
  /\ Len(result) >= 2 /\ Len(Flatten(result)) = MaxEdges

(* C2: when no vertex has more than two input edges (the input is a        *)
(* disjoint union of simple paths and cycles) the number of returned rings *)
(* is the number of connected components, for every seed order.            *)
OneRingPerComponent ==
  (pcR = "done" /\ MaxDegree2(selEdges)) =>
    Len(result) = Cardinality(Components(selEdges))

OneRingPerComponentWitness ==
  /\ pcR = "done" /\ MaxDegree2(selEdges)
  /\ Cardinality(Components(selEdges)) = 2
  /\ Len(result) = 2
  /\ \E i \in DOMAIN result : Len(result[i]) = 3

(* C3: every returned ring is a simple path or cycle: consecutive edges    *)
(* share a vertex and no vertex lies on more than two edges of one ring.   *)
RingIsSimple(r) ==
  /\ \A i \in 1..(Len(r) - 1) :
        Ends(selEdges, r[i]) \cap Ends(selEdges, r[i + 1]) # {}
  /\ \A v \in VertsOf(selEdges) :
        Cardinality({i \in DOMAIN r : v \in Ends(selEdges, r[i])}) <= 2

RingsAreSimple ==
  pcR = "done" => \A i \in DOMAIN result : RingIsSimple(result[i])

(* C4: a connected selection with a vertex of three or more selected edges *)
(* always comes back as more than one ring, so the callers' test           *)
(* len(rings) == 1 rejects it.                                             *)
BranchingGivesSeveralRings ==
  (pcR = "done" /\ Connected(selEdges) /\ HasBranch(selEdges)) =>
    Len(result) > 1

(* -------------------------- vtxLoopOrderCheck -------------------------- *)
(* Selections long enough to meet the walk's iteration cap: the path       *)
(* 1-2-...-(k+1) of k edges and the cycle 1-2-...-k-1 of k edges.          *)
PathEdges(k) == [i \in 1..k |-> <<i, i + 1>>]

CycleEdges(k) == [i \in 1..k |-> <<i, (i % k) + 1>>]

LongSelections ==
  {PathEdges(IterCap + 1), PathEdges(IterCap + 2),
   CycleEdges(IterCap), CycleEdges(IterCap + 1)}

(* getNumber after the loop over selEdges: both endpoints of every edge,   *)
(* in selection order, each pair in the order the host lists it            *)
GetNumber(E) ==
  [i \in 1..(2 * Len(E)) |-> E[(i + 1) \div 2][IF i % 2 = 1 THEN 1 ELSE 2]]

(* dup = set([x for x in getNumber if getNumber.count(x) > 1]) *)
DupOf(g) == {x \in Range(g) : Cardinality({i \in DOMAIN g : g[i] = x}) > 1}

(* list(set): the elements in an order the program does not control *)
ListsOf(S) ==
  {s \in [1..Cardinality(S) -> S] : \A i, j \in DOMAIN s : s[i] = s[j] => i = j}

(* list.remove(x): drops the first occurrence *)
RemoveFirst(s, x) ==
  LET i == CHOOSE k \in DOMAIN s : s[k] = x /\ \A j \in 1..(k - 1) : s[j] # x
  IN [k \in 1..(Len(s) - 1) |-> IF k < i THEN s[k] ELSE s[k + 1]]

(* the selected edges still in edgeNumberList that the host lists for the  *)
(* vertex; the loop keeps the last one listed, and the host's listing      *)
(* order is not under the program's control                                *)
NextEdgeCandidates(v) == {e \in Range(edgeNumberList) : v \in Ends(selEdges, e)}

(* for g in getNumber: if g in dup: gotNextVtx = g  -- the last endpoint   *)
(* listed that is still in dup; 0 stands for the initial []                *)
GotNextVtx(e) ==
  IF selEdges[e][2] \in dup THEN selEdges[e][2]
  ELSE IF selEdges[e][1] \in dup THEN selEdges[e][1]
  ELSE 0

OtherEndSame(ht) == ht[1]

(* vftOrder.append(getHeadTail[1]) *)
OtherEnd(ht) == ht[2]

TrimClosedNone(v) == v

(* the closed-loop trimming of a doubled start vertex *)
TrimClosed(v) ==
  IF v[1] = v[2] THEN Tail(v)
  ELSE IF v[1] = v[Len(v)] THEN SubSeq(v, 1, Len(v) - 1)
  ELSE v

Raised == outcome \in {"IndexError", "ValueError", "TypeError"}

InitOrder ==
  /\ selEdges \in SmallSelections \cup LongSelections
  /\ edgeNumberList = <<>> /\ dup = {} /\ getHeadTail = <<>>
  /\ checkCircleState = 0 /\ vftOrder = <<>> /\ count = 0
  /\ outcome = "none" /\ pcO = "start"
  /\ RingIdle /\ SegIdle /\ OtherIdle

(* selEdges[0] on an empty selection *)
OrderBeginEmpty ==
  /\ pcO = "start" /\ selEdges = <<>>
  /\ outcome' = "IndexError" /\ pcO' = "done"
  /\ UNCHANGED <<selEdges, otherVars, edgeNumberList, dup, getHeadTail,
                 checkCircleState, vftOrder, count, ringVars, segVars>>

(* everything up to the while loop *)
OrderBegin ==
  /\ pcO = "start" /\ selEdges # <<>>
  /\ edgeNumberList' = [i \in DOMAIN selEdges |-> i]
  /\ LET g == GetNumber(selEdges)
         d == DupOf(g)
         heads == Range(g) \ d
     IN /\ dup' = d
        /\ IF heads = {}
             THEN /\ checkCircleState' = 1
                  /\ getHeadTail' = <<g[1]>>
             ELSE /\ checkCircleState' = 0
                  /\ getHeadTail' \in ListsOf(heads)
  /\ vftOrder' = <<getHeadTail'[1]>>
  /\ count' = 0
  /\ pcO' = "loop"
  /\ UNCHANGED <<selEdges, otherVars, outcome, ringVars, segVars>>

(* one iteration of: while len(dup) > 0 and count < 1000 *)
OrderWalk ==
  /\ pcO = "loop" /\ dup # {} /\ count < IterCap
  /\ \E findNextEdge \in NextEdgeCandidates(vftOrder[Len(vftOrder)]) :
       LET gotNextVtx == GotNextVtx(findNextEdge) IN
         /\ gotNextVtx # 0
         /\ edgeNumberList' = RemoveFirst(edgeNumberList, findNextEdge)
         /\ dup' = dup \ {gotNextVtx}
         /\ vftOrder' = Append(vftOrder, gotNextVtx)
  /\ count' = count + 1
  /\ UNCHANGED <<selEdges, otherVars, getHeadTail, checkCircleState, outcome, pcO,
                 ringVars, segVars>>

(* the iteration fails: edgeNumberList.remove([]) when no selected edge is *)
(* left at the vertex (ValueError), dup.remove([]) when neither endpoint   *)
(* of the edge is in dup (TypeError); 0 stands for "no edge found"         *)
OrderWalkRaise ==
  /\ pcO = "loop" /\ dup # {} /\ count < IterCap
  /\ LET cand == NextEdgeCandidates(vftOrder[Len(vftOrder)]) IN
       \E findNextEdge \in cand \cup {0} :
         /\ findNextEdge = 0 => cand = {}
         /\ findNextEdge # 0 => GotNextVtx(findNextEdge) = 0
         /\ edgeNumberList' = IF findNextEdge = 0 THEN edgeNumberList
                              ELSE RemoveFirst(edgeNumberList, findNextEdge)
         /\ outcome' = IF findNextEdge = 0 THEN "ValueError" ELSE "TypeError"
  /\ pcO' = "done"
  /\ UNCHANGED <<selEdges, otherVars, dup, getHeadTail, checkCircleState, vftOrder,
                 count, ringVars, segVars>>

(* after the loop, open case: append the other path end and return *)
OrderFinishOpen ==
  /\ pcO = "loop" /\ ~ (dup # {} /\ count < IterCap)
  /\ checkCircleState = 0 /\ Len(getHeadTail) >= 2
  /\ vftOrder' = Append(vftOrder, OtherEnd(getHeadTail))
  /\ outcome' = "returned" /\ pcO' = "done"
  /\ UNCHANGED <<selEdges, otherVars, edgeNumberList, dup, getHeadTail,
                 checkCircleState, count, ringVars, segVars>>

(* after the loop, open case with a single path end: getHeadTail[1] *)
OrderFinishOpenRaise ==
  /\ pcO = "loop" /\ ~ (dup # {} /\ count < IterCap)
  /\ checkCircleState = 0 /\ Len(getHeadTail) < 2
  /\ outcome' = "IndexError" /\ pcO' = "done"
  /\ UNCHANGED <<selEdges, otherVars, edgeNumberList, dup, getHeadTail,
                 checkCircleState, vftOrder, count, ringVars, segVars>>

(* after the loop, closed case: trim and return; vftOrder[1] needs two     *)
(* entries                                                                 *)
OrderFinishClosed ==
  /\ pcO = "loop" /\ ~ (dup # {} /\ count < IterCap)
  /\ checkCircleState = 1
  /\ IF Len(vftOrder) >= 2
       THEN vftOrder' = TrimClosed(vftOrder) /\ outcome' = "returned"
       ELSE vftOrder' = vftOrder /\ outcome' = "IndexError"
  /\ pcO' = "done"
  /\ UNCHANGED <<selEdges, otherVars, edgeNumberList, dup, getHeadTail,
                 checkCircleState, count, ringVars, segVars>>

NextOrder ==
  \/ OrderBeginEmpty \/ OrderBegin \/ OrderWalk \/ OrderWalkRaise
  \/ OrderFinishOpen \/ OrderFinishOpenRaise \/ OrderFinishClosed

SpecOrder == InitOrder /\ [][NextOrder]_vars

(* ------------------ properties of vtxLoopOrderCheck -------------------- *)
(* The path 1-2-...-(k+1) given edge by edge in path order. *)
IsChain(E) == E # <<>> /\ \A i \in DOMAIN E : Ends(E, i) = {i, i + 1}

(* The cycle 1-2-...-k-1 given edge by edge in cycle order. *)
IsRing(E) == Len(E) >= 3 /\ \A i \in DOMAIN E : Ends(E, i) = {i, (i % Len(E)) + 1}

(* A single simple open path: connected, two vertices of degree 1, the     *)
(* others of degree 2.                                                     *)
IsSimplePath(E) ==
  \/ IsChain(E)
  \/ /\ E # <<>>
     /\ MaxDegree2(E)
     /\ Cardinality({v \in VertsOf(E) : Degree(E, v) = 1}) = 2
     /\ Connected(E)

(* A single simple cycle: connected, every vertex of degree 2. *)
IsSimpleCycle(E) ==
  \/ IsRing(E)
  \/ /\ Len(E) >= 3
     /\ \A v \in VertsOf(E) : Degree(E, v) = 2
     /\ Connected(E)

NumVerts(E) == IF IsChain(E) THEN Len(E) + 1
               ELSE IF IsRing(E) THEN Len(E)
               ELSE Cardinality(VertsOf(E))

(* loop visits every vertex of E once, each step along an edge of E: for a *)
(* simple path this is the path order v0..v(M-1) or its exact reverse      *)
VisitsAllAlongEdges(loop, E) ==
  /\ Len(loop) = NumVerts(E)
  /\ Cardinality(Range(loop)) = Len(loop)
  /\ \A i \in 1..(Len(loop) - 1) : Joined(E, loop[i], loop[i + 1])

OrderedOpenPath ==
  /\ outcome = "returned"
  /\ checkCircleState = 0
  /\ VisitsAllAlongEdges(vftOrder, selEdges)

OrderedClosedLoop ==
  /\ outcome = "returned"
  /\ checkCircleState = 1
  /\ VisitsAllAlongEdges(vftOrder, selEdges)
  /\ Joined(selEdges, vftOrder[Len(vftOrder)], vftOrder[1])

BranchingInputIsRejected ==
  (pcO = "done" /\ HasBranch(selEdges)) => outcome # "returned"

(* C8: when the walk stops at the iteration cap with vertices still        *)
(* unvisited, the function does not return a loop.                         *)
CapExceededIsFailure ==
  (pcO = "done" /\ count = IterCap /\ dup # {}) => outcome # "returned"

(* ---------------------- segmentsPositions_adaptive --------------------- *)
(* The loop vtx_list has n vertices at Python indices 0..n-1; a vertex is  *)
(* named by its loop index, so vtx_list[i] = i and a segment is a sequence *)
(* of loop indices.  angle[i] is the turning angle the code computes at    *)
(* index i from the three positions (whole degrees; 90 also stands for the *)
(* zero-length case).                                                      *)
Angles == {2, 45, 90, 170}

(* (similarity_threshold, corner_threshold) at the call sites *)
Thresholds == {<<5, 30>>, <<35, 55>>}

VtxList(n) == [i \in 1..n |-> i - 1]

(* s[a:b] and s[a:] on a sequence holding Python indices 0..len-1 *)
PyClamp(len, a) == IF a < 0 THEN Max2(a + len, 0) ELSE IF a > len THEN len ELSE a

PySlice(s, a, b) == SubSeq(s, PyClamp(Len(s), a) + 1, PyClamp(Len(s), b))

PySliceFrom(s, a) == SubSeq(s, PyClamp(Len(s), a) + 1, Len(s))

PyIndexNext(s, i) ==
  IF i < 0 THEN s[i + Len(s) + 1] ELSE s[((i + 1) % Len(s)) + 1]

(* s[i]; an index outside -len..len-1 is outside the domain here too *)
PyIndex(s, i) == IF i < 0 THEN s[i + Len(s) + 1] ELSE s[i + 1]

(* deviation = abs(angle - 90.0) *)
Deviation(a) == IF a >= 90 THEN a - 90 ELSE 90 - a

N == Len(angle)

Dev(i) == Deviation(angle[i + 1])

AllIdx == 0..(N - 1)

Spread ==
  LET ds == {Dev(i) : i \in AllIdx}
  IN SetMax(ds) - (CHOOSE m \in ds : \A x \in ds : m <= x)

BeforeDescending(j, i) == Dev(j) > Dev(i) \/ (Dev(j) = Dev(i) /\ j < i)

(* sorted(..., key=lambda x: x[3]): ascending deviation, and the stable    *)
(* sort keeps index order among equal deviations                           *)
Before(j, i) == Dev(j) < Dev(i) \/ (Dev(j) = Dev(i) /\ j < i)

LowestLate(S, k) ==
  {i \in S : Cardinality({j \in S : Dev(j) < Dev(i) \/ (Dev(j) = Dev(i) /\ j > i)}) < k}

(* sorted(S, key=deviation)[:k] as a set of indices *)
Lowest(S, k) == {i \in S : Cardinality({j \in S : Before(j, i)}) < k}

(* candidates.sort(key=lambda x: x[0]); [item[0] for item in candidates] *)
InLoopOrder(S) ==
  [k \in 1..Cardinality(S) |->
     CHOOSE x \in S : Cardinality({y \in S : y < x}) = k - 1]

UniformCornersStep(n) == [i \in 1..4 |-> (i - 1) * (n \div 4)]

(* [int(i * n / 4) for i in range(4)] *)
UniformCorners(n) == [i \in 1..4 |-> ((i - 1) * n) \div 4]

CornerIdxs ==
  LET first ==
        IF Spread <= similarity_threshold
          THEN UniformCorners(N)
          ELSE LET candidates == {i \in AllIdx : Dev(i) <= corner_threshold}
               IN IF Cardinality(candidates) >= 4
                    THEN InLoopOrder(Lowest(candidates, 4))
                    ELSE InLoopOrder(Lowest(AllIdx, 4))
  IN IF Len(first) # 4 THEN InLoopOrder(Lowest(AllIdx, 4)) ELSE first

CyclicRunOpen(start, end, n) ==
  [k \in 1..((end - start + n) % n) |-> (start + k - 1) % n]

(* the while True walk from start to end, idx = (idx + 1) % n *)
CyclicRun(start, end, n) ==
  [k \in 1..(((end - start + n) % n) + 1) |-> (start + k - 1) % n]

(* min(range(4), key=...): the first index with the smallest              *)
(* abs(len(init_segments[i]) - n / 4.0), compared here multiplied by 4     *)
BestIdx(segs, n) ==
  LET key(i) == LET d == 4 * Len(segs[i + 1]) - n IN IF d < 0 THEN -d ELSE d
  IN CHOOSE b \in 0..3 :
       /\ \A i \in 0..3 : key(b) <= key(i)
       /\ \A i \in 0..(b - 1) : key(i) > key(b)

HalfLess(n) == (n - 1) \div 2

(* half = n // 2 *)
Half(n) == n \div 2

(* lines 455-473: rotation to the anchor corner and the arithmetic split *)
Rebalanced(segs, corners, n) ==
  LET best_idx == BestIdx(segs, n)
      start_loop == corners[best_idx + 1]
      rotated == PySliceFrom(VtxList(n), start_loop)
                   \o PySlice(VtxList(n), 0, start_loop)
      len0 == Len(segs[best_idx + 1])
      len1 == Half(n) - len0
      len2 == len0
      seg0 == PySlice(rotated, 0, len0)
      start1 == len0 - 1
      end1 == len0 + len1 + 1
      seg1 == PySlice(rotated, start1, end1)
      start2 == end1 - 1
      end2 == start2 + len2
      seg2 == PySlice(rotated, start2, end2)
      last2 == end2 - 1
      seg3_body == PySliceFrom(rotated, last2 + 1)
      seg3 == <<PyIndex(rotated, last2)>> \o seg3_body \o <<PyIndex(rotated, 0)>>
  IN <<seg0, seg1, seg2, seg3>>

RECURSIVE TotalTurning(_)
TotalTurning(a) == IF a = <<>> THEN 0 ELSE (180 - Head(a)) + TotalTurning(Tail(a))

(* The angles come from the positions of a closed polygon in space, whose  *)
(* total turning (sum of 180 - angle) is at least 360 degrees.             *)
Feasible(a) == TotalTurning(a) >= 360

InitSeg ==
  /\ \E n \in 3..MaxN : angle \in {a \in [1..n -> Angles] : Feasible(a)}
  /\ \E t \in Thresholds : similarity_threshold = t[1] /\ corner_threshold = t[2]
  /\ corner_idxs = <<>> /\ init_segments = <<>> /\ segments = <<>>
  /\ pcS = "start"
  /\ selEdges = <<>> /\ RingIdle /\ OrderIdle /\ OtherIdle

(* larger loops with one angle at every vertex (regular polygons) *)
InitSegRegular ==
  /\ \E n \in (MaxN + 1)..MaxRegularN : \E a \in Angles :
        angle = [i \in 1..n |-> a] /\ Feasible(angle)
  /\ \E t \in Thresholds : similarity_threshold = t[1] /\ corner_threshold = t[2]
  /\ corner_idxs = <<>> /\ init_segments = <<>> /\ segments = <<>>
  /\ pcS = "start"
  /\ selEdges = <<>> /\ RingIdle /\ OrderIdle /\ OtherIdle

(* larger loops with one sharp vertex among near-straight ones (teardrop) *)
InitSegTeardrop ==
  /\ \E n \in (MaxN + 1)..MaxTeardropN : \E p \in 1..n : \E tip \in {2, 45} :
        angle = [i \in 1..n |-> IF i = p THEN tip ELSE 170] /\ Feasible(angle)
  /\ \E t \in Thresholds : similarity_threshold = t[1] /\ corner_threshold = t[2]
  /\ corner_idxs = <<>> /\ init_segments = <<>> /\ segments = <<>>
  /\ pcS = "start"
  /\ selEdges = <<>> /\ RingIdle /\ OrderIdle /\ OtherIdle

InitSegAll == InitSeg \/ InitSegRegular \/ InitSegTeardrop

(* if n < 4: return [], [], [], [] *)
SegTooShort ==
  /\ pcS = "start" /\ N < 4
  /\ pcS' = "done"
  /\ UNCHANGED <<selEdges, otherVars, angle, similarity_threshold, corner_threshold,
                 corner_idxs, init_segments, segments, ringVars, orderVars>>

(* lines 423-441: corner selection *)
SegCorners ==
  /\ pcS = "start" /\ N >= 4
  /\ corner_idxs' = CornerIdxs
  /\ pcS' = "corners"
  /\ UNCHANGED <<selEdges, otherVars, angle, similarity_threshold, corner_threshold,
                 init_segments, segments, ringVars, orderVars>>

(* lines 442-453: the four corner-to-corner runs *)
SegInitSegments ==
  /\ pcS = "corners"
  /\ init_segments' =
       [k \in 1..4 |-> CyclicRun(corner_idxs[k], corner_idxs[(k % 4) + 1], N)]
  /\ pcS' = "walked"
  /\ UNCHANGED <<selEdges, otherVars, angle, similarity_threshold, corner_threshold,
                 corner_idxs, segments, ringVars, orderVars>>

(* lines 455-478 *)
SegRebalance ==
  /\ pcS = "walked"
  /\ segments' = Rebalanced(init_segments, corner_idxs, N)
  /\ pcS' = "done"
  /\ UNCHANGED <<selEdges, otherVars, angle, similarity_threshold, corner_threshold,
                 corner_idxs, init_segments, ringVars, orderVars>>

NextSeg == SegTooShort \/ SegCorners \/ SegInitSegments \/ SegRebalance

SpecSeg == InitSegAll /\ [][NextSeg]_vars

(* -------------- properties of segmentsPositions_adaptive --------------- *)
AllDeviationsEqual == \A i, j \in AllIdx : Dev(i) = Dev(j)

SegLens == {Len(segments[k]) : k \in 1..4}

UniformResult ==
  /\ corner_idxs = [i \in 1..4 |-> ((i - 1) * N) \div 4]
  /\ Len(segments) = 4
  /\ \A a, b \in SegLens : a - b <= 1

(* C9 as stated: with all deviations equal and any N >= 4 the corners are  *)
(* at floor(i*N/4) and the four segment sizes differ pairwise by at most 1.*)
RegularLoopBalancedAnyN ==
  (pcS = "done" /\ N >= 4 /\ AllDeviationsEqual) => UniformResult

(* C9 amended: the same for every N >= 4 with N mod 4 # 3 (every even N    *)
(* included).                                                              *)
RegularLoopBalanced ==
  (pcS = "done" /\ N >= 4 /\ AllDeviationsEqual /\ N % 4 # 3) => UniformResult

RegularLoopBalancedWitness ==
  /\ pcS = "done" /\ N = 12 /\ AllDeviationsEqual
  /\ similarity_threshold = 5
  /\ corner_idxs = <<0, 3, 6, 9>>
  /\ SegLens = {4}

(* i is the only vertex with a sharp angle, all others are near-straight,  *)
(* and the spread of deviations exceeds the similarity threshold           *)
LoneSharpVertex(i) ==
  /\ angle[i + 1] <= 45
  /\ \A j \in AllIdx \ {i} : angle[j + 1] >= 160
  /\ Spread > similarity_threshold

(* C10 as stated: the lone sharp vertex is always one of the corners. *)
SharpVertexIsCornerAlways ==
  pcS = "done" =>
    \A i \in AllIdx : (N >= 4 /\ LoneSharpVertex(i)) => i \in Range(corner_idxs)

(* C10 amended: the lone sharp vertex is one of the corners whenever its   *)
(* deviation |angle - 90| is smaller than that of every other vertex.      *)
SharpVertexIsCorner ==
  pcS = "done" =>
    \A i \in AllIdx :
      (/\ N >= 4 /\ LoneSharpVertex(i)
       /\ \A j \in AllIdx \ {i} : Dev(i) < Dev(j))
        => i \in Range(corner_idxs)

SharpVertexIsCornerWitness ==
  /\ pcS = "done" /\ N = MaxTeardropN
  /\ LoneSharpVertex(N - 1)
  /\ Dev(N - 1) < Dev(0)
  /\ (N - 1) \in Range(corner_idxs)

(* ------------------------- segmentsAdaptiveOpen ------------------------ *)
(* The open loop vtx_list has n vertices at Python indices 0..n-1, named   *)
(* by their index as above.  angle[i] is the angle measured at index i;    *)
(* nothing is measured at the two ends, where the entry is 90 and is       *)
(* replaced by the code's own value.                                       *)
OpenAngles == {90, 120, 140, 170, 180}

MaxOpenN == 7

(* k = 3 *)
OpenK == 3

(* angle_data.append((i, v, 180.0, 90.0)) for i in (0, n - 1) *)
OpenAngleData(a) ==
  [i \in DOMAIN a |-> IF i = 1 \/ i = Len(a) THEN 180 ELSE a[i]]

OpenDev(i) == Deviation(OpenAngleData(angle)[i + 1])

(* the indices with item[0] not in (0, n - 1) *)
Interior == {i \in AllIdx : i # 0 /\ i # N - 1}

(* deviations = [d for (_, _, _, d) in angle_data if d != 90.0] *)
OpenDeviations == {OpenDev(i) : i \in {j \in AllIdx : OpenDev(j) # 90}}

(* deviations and (max(deviations) - min(deviations) <= similarity_threshold) *)
OpenUniform ==
  /\ OpenDeviations # {}
  /\ \A x, y \in OpenDeviations : x - y <= similarity_threshold

(* [int(i * n / k) for i in range(k)] *)
OpenUniformCorners(n) == [i \in 1..OpenK |-> ((i - 1) * n) \div OpenK]

(* sorted(..., key=lambda x: x[3]) on angle_data items *)
OpenBefore(j, i) ==
  OpenDev(j) < OpenDev(i) \/ (OpenDev(j) = OpenDev(i) /\ j < i)

OpenLowest(S, k) == {i \in S : Cardinality({j \in S : OpenBefore(j, i)}) < k}

(* lines 77-94 *)
OpenCornerIdxs ==
  LET first ==
        IF OpenUniform
          THEN OpenUniformCorners(N)
          ELSE LET candidates ==
                     {i \in Interior : OpenDev(i) <= corner_threshold}
               IN IF Cardinality(candidates) >= OpenK
                    THEN InLoopOrder(OpenLowest(candidates, OpenK))
                    ELSE InLoopOrder(OpenLowest(Interior, OpenK))
  IN IF Len(first) # OpenK
       THEN InLoopOrder(OpenLowest(Interior, OpenK))
       ELSE first

(* sharp = [i ... if dev <= corner_threshold and i not in (0, n - 1)] *)
Sharp == {i \in Interior : OpenDev(i) <= corner_threshold}

TrimHeadTail(seg, l1, l2) == PySlice(seg, 0, l2)

(* seg1 = seg1[l1 - l2:] *)
TrimHead(seg, l1, l2) == PySliceFrom(seg, l1 - l2)

(* seg2 = seg2[:l1] *)
TrimTail(seg, l1) == PySlice(seg, 0, l1)

(* lines 101-116: the split at the two sharp indices *)
SharpSplit(S, n) ==
  LET c0 == CHOOSE c \in S : \A d \in S : c <= d
      c1 == CHOOSE c \in S : \A d \in S : d <= c
      seg0 == [k \in 1..(c1 - c0 + 1) |-> PyIndex(VtxList(n), c0 + k - 1)]
      seg1 == PySlice(VtxList(n), 0, c0 + 1)
      seg2 == PySliceFrom(VtxList(n), c1)
      l1 == Len(seg1)
      l2 == Len(seg2)
  IN <<seg0,
       IF l1 > l2 THEN TrimHead(seg1, l1, l2) ELSE seg1,
       IF l2 > l1 THEN TrimTail(seg2, l1) ELSE seg2>>

OpenLengthsUnswapped(n) ==
  LET base == n \div 3
      rem == n % 3
      start == rem - 1
      bumped == {(start + i) % 3 : i \in 0..(rem - 1)}
  IN [j \in 1..3 |-> IF (j - 1) \in bumped THEN base + 1 ELSE base]

(* lines 118-124: base, rem, the rem increments and the swap *)
OpenLengths(n) ==
  LET base == n \div 3
      rem == n % 3
      start == rem - 1
      bumped == {(start + i) % 3 : i \in 0..(rem - 1)}
      lengths == [j \in 0..2 |-> IF j \in bumped THEN base + 1 ELSE base]
  IN <<lengths[1], lengths[0], lengths[2]>>

(* lines 126-129: the arithmetic split, returned as [seg1, seg0, seg2] *)
GenericSplit(n) ==
  LET lengths == OpenLengths(n)
      seg0 == PySlice(VtxList(n), 0, lengths[1])
      seg1 == PySlice(VtxList(n), lengths[1] - 1, lengths[1] + lengths[2] + 1)
      seg2 == PySlice(VtxList(n), lengths[1] + lengths[2] - 1, -1)
  IN <<seg1, seg0, seg2>>

InitOpen ==
  /\ \E n \in 0..MaxOpenN :
       angle \in {a \in [1..n -> OpenAngles] :
                    \A i \in 1..n : (i = 1 \/ i = n) => a[i] = 90}
  /\ \E t \in Thresholds : similarity_threshold = t[1] /\ corner_threshold = t[2]
  /\ corner_idxs = <<>> /\ init_segments = <<>> /\ segments = <<>>
  /\ pcS = "idle"
  /\ sharp = {} /\ pcA = "start"
  /\ selEdges = <<>> /\ RingIdle /\ OrderIdle
  /\ PosIdle /\ FlatIdle /\ PatchIdle

(* if n < k: return [], [], [], [] *)
OpenTooShort ==
  /\ pcA = "start" /\ N < OpenK
  /\ pcA' = "done"
  /\ UNCHANGED <<selEdges, ringVars, orderVars, segVars, sharp,
                 posVars, flatVars, patchVars>>

(* lines 57-98: angle data, corner selection, the sharp indices *)
OpenCorners ==
  /\ pcA = "start" /\ N >= OpenK
  /\ corner_idxs' = OpenCornerIdxs
  /\ sharp' = Sharp
  /\ pcA' = "corners"
  /\ UNCHANGED <<selEdges, ringVars, orderVars, angle, similarity_threshold,
                 corner_threshold, init_segments, segments, pcS,
                 posVars, flatVars, patchVars>>

(* if len(sharp) == 2 *)
OpenSplitSharp ==
  /\ pcA = "corners" /\ Cardinality(sharp) = 2
  /\ init_segments' = SharpSplit(sharp, N)
  /\ pcA' = "done"
  /\ UNCHANGED <<selEdges, ringVars, orderVars, angle, similarity_threshold,
                 corner_threshold, corner_idxs, segments, pcS, sharp,
                 posVars, flatVars, patchVars>>

(* else *)
OpenSplitGeneric ==
  /\ pcA = "corners" /\ Cardinality(sharp) # 2
  /\ init_segments' = GenericSplit(N)
  /\ pcA' = "done"
  /\ UNCHANGED <<selEdges, ringVars, orderVars, angle, similarity_threshold,
                 corner_threshold, corner_idxs, segments, pcS, sharp,
                 posVars, flatVars, patchVars>>

NextOpen == OpenTooShort \/ OpenCorners \/ OpenSplitSharp \/ OpenSplitGeneric

SpecOpen == InitOpen /\ [][NextOpen]_vars

(* ----------------- properties of segmentsAdaptiveOpen ------------------ *)
Min2(a, b) == IF a <= b THEN a ELSE b

(* the interior indices whose deviation |angle - 90| is within the corner  *)
(* threshold                                                               *)
WithinCornerThreshold ==
  {i \in 1..(N - 2) : Deviation(angle[i + 1]) <= corner_threshold}

(* C11: when exactly two interior indices c0 < c1 have deviation within    *)
(* the corner threshold, the three returned segments are the span          *)
(* c0..c1, the m consecutive vertices ending at c0 and the m consecutive   *)
(* vertices beginning at c1, with m = min(c0 + 1, n - c1).                 *)
TwoSharpSplit ==
  pcA = "done" =>
    \A c0, c1 \in 1..(N - 2) :
      (c0 < c1 /\ WithinCornerThreshold = {c0, c1}) =>
        LET m == Min2(c0 + 1, N - c1) IN
          /\ Len(init_segments) = 3
          /\ init_segments[1] = [k \in 1..(c1 - c0 + 1) |-> c0 + k - 1]
          /\ init_segments[2] = [k \in 1..m |-> c0 - m + k]
          /\ init_segments[3] = [k \in 1..m |-> c1 + k - 1]

TwoSharpSplitWitness ==
  /\ pcA = "done" /\ N = 7
  /\ WithinCornerThreshold = {2, 5}
  /\ init_segments = <<<<2, 3, 4, 5>>, <<1, 2>>, <<5, 6>>>>

(* --------------------------- segmentsPositions ------------------------- *)
MaxPosN == 6

MaxInitial == 4

(* the sequences of k different members of S *)
RECURSIVE Arrangements(_, _)
Arrangements(S, k) ==
  IF k = 0 THEN {<<>>}
  ELSE {Append(a, x) : a \in Arrangements(S, k - 1), x \in S} \cap
       {a \in [1..k -> S] : \A i, j \in 1..k : a[i] = a[j] => i = j}

(* block = [vtx_list[(s + j) % n] for j in range(len0)] *)
Block(s) ==
  {PyIndex(vtx_list, (s + j) % Len(vtx_list)) : j \in 0..(Len(initial_verts) - 1)}

(* the s of range(n) with set(block) == init_set *)
BlockStarts == {s \in 0..(Len(vtx_list) - 1) : Block(s) = Range(initial_verts)}

(* start_idx: the first such s *)
StartIdx == CHOOSE s \in BlockStarts : \A t \in BlockStarts : s <= t

Unrotated(start_idx) == vtx_list

(* rotated = [vtx_list[(start_idx + i) % n] for i in range(n)] *)
Rotated(start_idx) ==
  [i \in 1..Len(vtx_list) |->
     PyIndex(vtx_list, (start_idx + i - 1) % Len(vtx_list))]

(* lines 223-239 *)
PositionsSplit(rotated, len0) ==
  LET half == Len(rotated) \div 2
      len1 == half - len0
      len2 == len0
      seg0 == PySlice(rotated, 0, len0)
      start1 == len0 - 1
      end1 == len0 + len1 + 1
      seg1 == PySlice(rotated, start1, end1)
      start2 == end1 - 1
      end2 == start2 + len2
      seg2 == PySlice(rotated, start2, end2)
      last2 == end2 - 1
      seg3_body == PySliceFrom(rotated, last2 + 1)
      seg3 == <<PyIndex(rotated, last2)>> \o seg3_body \o <<PyIndex(rotated, 0)>>
  IN <<seg0, seg1, seg2, seg3>>

InitPos ==
  /\ \E n \in 3..MaxPosN :
       /\ vtx_list = VtxList(n)
       /\ \E k \in 0..MaxInitial : initial_verts \in Arrangements(0..(n - 1), k)
  /\ pcP = "start"
  /\ selEdges = <<>> /\ RingIdle /\ OrderIdle /\ SegIdle
  /\ OpenIdle /\ FlatIdle /\ PatchIdle

(* if n < 4 or len0 < 1: return [], [] *)
PosTooShort ==
  /\ pcP = "start"
  /\ Len(vtx_list) < 4 \/ Len(initial_verts) < 1
  /\ pcP' = "done"
  /\ UNCHANGED <<selEdges, ringVars, orderVars, segVars, vtx_list,
                 initial_verts, openVars, flatVars, patchVars>>

(* if start_idx is None: return [], [] *)
PosNoBlock ==
  /\ pcP = "start"
  /\ Len(vtx_list) >= 4 /\ Len(initial_verts) >= 1
  /\ BlockStarts = {}
  /\ pcP' = "done"
  /\ UNCHANGED <<selEdges, ringVars, orderVars, segVars, vtx_list,
                 initial_verts, openVars, flatVars, patchVars>>

(* if len1 < 0: return [], [] *)
PosTooLong ==
  /\ pcP = "start"
  /\ Len(vtx_list) >= 4 /\ Len(initial_verts) >= 1
  /\ BlockStarts # {}
  /\ (Len(vtx_list) \div 2) - Len(initial_verts) < 0
  /\ pcP' = "done"
  /\ UNCHANGED <<selEdges, ringVars, orderVars, segVars, vtx_list,
                 initial_verts, openVars, flatVars, patchVars>>

(* lines 222-244 *)
PosSplit ==
  /\ pcP = "start"
  /\ Len(vtx_list) >= 4 /\ Len(initial_verts) >= 1
  /\ BlockStarts # {}
  /\ (Len(vtx_list) \div 2) - Len(initial_verts) >= 0
  /\ segments' = PositionsSplit(Rotated(StartIdx), Len(initial_verts))
  /\ pcP' = "done"
  /\ UNCHANGED <<selEdges, ringVars, orderVars, angle, similarity_threshold,
                 corner_threshold, corner_idxs, init_segments, pcS, vtx_list,
                 initial_verts, openVars, flatVars, patchVars>>

NextPos == PosTooShort \/ PosNoBlock \/ PosTooLong \/ PosSplit

SpecPos == InitPos /\ [][NextPos]_vars

(* both four-way splitters, segmentsPositions_adaptive and segmentsPositions *)
InitSplit == InitSegAll \/ InitPos

NextSplit == NextSeg \/ NextPos

SpecSplit == InitSplit /\ [][NextSplit]_vars

(* ----------------- properties of the four-way splitters ---------------- *)
OppositeSidesEqual ==
  /\ Len(segments) = 4
  /\ Len(segments[1]) = Len(segments[3])
  /\ Len(segments[2]) = Len(segments[4])

(* C12: on a loop with an even number n >= 4 of vertices, the segments     *)
(* returned by segmentsPositions_adaptive, and those returned by           *)
(* segmentsPositions when its result is not empty, have                    *)
(* len(seg0) = len(seg2) and len(seg1) = len(seg3).                        *)
EvenLoopOppositeSidesEqual ==
  /\ (pcS = "done" /\ N >= 4 /\ N % 2 = 0) => OppositeSidesEqual
  /\ (pcP = "done" /\ Len(vtx_list) % 2 = 0 /\ segments # <<>>)
       => OppositeSidesEqual

EvenLoopOppositeSidesEqualWitness ==
  /\ pcS = "done" /\ N = 6
  /\ corner_idxs = <<0, 1, 2, 5>>
  /\ Len(segments[1]) = 2 /\ Len(segments[2]) = 3
  /\ Len(segments[3]) = 2 /\ Len(segments[4]) = 3

StrictlyIncreasing(s) == \A i, j \in DOMAIN s : i < j => s[i] < s[j]

(* the uniform-spacing branch of the open segmenter is taken: some         *)
(* deviation differs from 90 and those deviations lie within the           *)
(* similarity threshold of each other                                      *)
OpenUniformTaken ==
  LET ds == {Deviation(angle[i + 1]) : i \in 1..(N - 2)} \ {90}
  IN ds # {} /\ \A x, y \in ds : x - y <= similarity_threshold

(* C13: the corner set has exactly k members at strictly increasing loop   *)
(* indices: 4 for every closed loop with n >= 4, 3 for every open loop     *)
(* with n >= 3; in the open angle-driven branch all corners are interior.  *)
CornerSetHasKMembers ==
  /\ (pcS = "done" /\ N >= 4)
       => (Len(corner_idxs) = 4 /\ StrictlyIncreasing(corner_idxs))
  /\ (pcA = "done" /\ N >= 3)
       => /\ Len(corner_idxs) = 3 /\ StrictlyIncreasing(corner_idxs)
          /\ ~ OpenUniformTaken => Range(corner_idxs) \subseteq 1..(N - 2)

(* -------------------- instantQPatch, instantQPatchOpen ----------------- *)
(* The control flow of the two handlers.  Of the selection and of every    *)
(* list only the length is kept; what a callee returns is drawn from what  *)
(* it can return (the ring count from 1..len(selEdge), the loop state from *)
(* {0, 1}, the number of segments from the segmenter's return statements). *)
(* calls lists, in order, the callees and the mesh-changing host commands  *)
(* the handler has invoked.                                                *)
MaxSel == 5

MaxLoop == 7

Handlers == {"instantQPatch", "instantQPatchOpen"}

(* curves[0] .. curves[3] for mc.boundary, curves[0] .. curves[2] for      *)
(* mc.singleProfileBirailSurface                                           *)
PatchK(h) == IF h = "instantQPatch" THEN 4 ELSE 3

Builder(h) ==
  IF h = "instantQPatch" THEN "boundary" ELSE "singleProfileBirailSurface"

(* len(segments_pos) returned by segmentsPositions_adaptive *)
AdaptiveCount(n) == IF n < 4 THEN 0 ELSE 4

(* len(segments_pos) returned by segmentsAdaptiveOpen *)
OpenCount(n) == IF n < OpenK THEN 0 ELSE 3

(* len(segments_pos) returned by segmentsPositions: [] or four segments *)
PositionsCounts(n) == IF n < 4 THEN {0} ELSE {0, 4}

(* maxPossible = int((amount / 2) - 1), int() truncating towards zero *)
MaxPossible(a) == IF a < 2 THEN 0 ELSE (a - 2) \div 2

AnyParity(a) == TRUE

(* amount % 2 == 1 *)
Odd(a) == a % 2 = 1

AfterRingsOrder(h, r) == "order"

(* if len(checkLoopSize) == 1: ... ; what follows the if in each handler *)
AfterRings(h, r) ==
  IF r = 1 THEN "order"
  ELSE IF h = "instantQPatch" THEN "curves" ELSE "done"

(* the places where the next statement calls vtxLoopOrderCheck *)
OrderPoints ==
  {"order", "fullLoop", "innerOpen", "borderOpen", "evenOpen", "splitOpen",
   "innerClosed", "segmentClosed", "adaptiveOpen", "flatOpen"}

InitPatch ==
  /\ handler \in Handlers
  /\ selCount \in 0..MaxSel
  /\ checkLoopSize = 0 /\ getCircleState = 0 /\ flatState = 0
  /\ listLen = 0 /\ amount = 0 /\ segments_pos = 0 /\ curves = 0
  /\ calls = <<>> /\ status = "none" /\ pcQ = "start"
  /\ selEdges = <<>> /\ RingIdle /\ OrderIdle /\ SegIdle
  /\ OpenIdle /\ PosIdle /\ FlatIdle

(* selEdge = mc.filterExpand(sm = 32); if selEdge: is false *)
PatchEmpty ==
  /\ pcQ = "start" /\ selCount = 0
  /\ status' = "returned" /\ pcQ' = "done"
  /\ UNCHANGED <<selEdges, ringVars, orderVars, segVars, openVars, posVars,
                 flatVars, handler, selCount, checkLoopSize, getCircleState,
                 flatState, listLen, amount, segments_pos, curves, calls>>

(* curves = []; segments_pos = []; checkLoopSize = getEdgeRingGroupList(selEdge) *)
PatchRings ==
  /\ pcQ = "start" /\ selCount > 0
  /\ \E r \in 1..selCount :
       /\ checkLoopSize' = r
       /\ pcQ' = AfterRings(handler, r)
  /\ calls' = Append(calls, "getEdgeRingGroupList")
  /\ status' = IF pcQ' = "done" THEN "returned" ELSE status
  /\ UNCHANGED <<selEdges, ringVars, orderVars, segVars, openVars, posVars,
                 flatVars, handler, selCount, getCircleState, flatState,
                 listLen, amount, segments_pos, curves>>

(* a call of vtxLoopOrderCheck raises and the handler is left *)
PatchRaise ==
  /\ pcQ \in OrderPoints
  /\ calls' = Append(calls, "vtxLoopOrderCheck")
  /\ status' = "raised" /\ pcQ' = "done"
  /\ UNCHANGED <<selEdges, ringVars, orderVars, segVars, openVars, posVars,
                 flatVars, handler, selCount, checkLoopSize, getCircleState,
                 flatState, listLen, amount, segments_pos, curves>>

(* instantQPatch lines 495-496 and 543 *)
PatchOrder ==
  /\ pcQ = "order" /\ handler = "instantQPatch"
  /\ \E st \in {0, 1} : \E len \in 2..(selCount + 1) :
       /\ st = 1 => selCount >= 3
       /\ getCircleState' = st
       /\ listLen' = len
       /\ amount' = IF st = 1 THEN selCount ELSE amount
       /\ pcQ' = IF st = 1 THEN "closed" ELSE "fullLoop"
  /\ calls' = Append(calls, "vtxLoopOrderCheck")
  /\ UNCHANGED <<selEdges, ringVars, orderVars, segVars, openVars, posVars,
                 flatVars, handler, selCount, checkLoopSize, flatState,
                 segments_pos, curves, status>>

(* lines 497-507: the full loop through the first selected edge *)
PatchFullLoop ==
  /\ pcQ = "fullLoop"
  /\ \E full \in 1..MaxLoop : \E st \in {0, 1} : \E len \in 2..(full + 1) :
       /\ st = 1 => full >= 3
       /\ getCircleState' = st
       /\ listLen' = len
       /\ IF st = 1
            THEN /\ amount' = full
                 /\ selCount' = IF selCount > MaxPossible(full)
                                  THEN Max2(MaxPossible(full) - 1, 0)
                                  ELSE selCount
                 /\ pcQ' = IF Odd(full) THEN "parityOpen" ELSE "evenOpen"
            ELSE /\ pcQ' = "curves"
                 /\ UNCHANGED <<amount, selCount>>
  /\ calls' = Append(calls, "vtxLoopOrderCheck")
  /\ UNCHANGED <<selEdges, ringVars, orderVars, segVars, openVars, posVars,
                 flatVars, handler, checkLoopSize, flatState, segments_pos,
                 curves, status>>

(* lines 509-514 *)
PatchExtrudeOpen ==
  /\ pcQ = "parityOpen"
  /\ calls' = calls \o <<"get_shortest_edge", "polyExtrudeEdge">>
  /\ pcQ' = "innerOpen"
  /\ UNCHANGED <<selEdges, ringVars, orderVars, segVars, openVars, posVars,
                 flatVars, handler, selCount, checkLoopSize, getCircleState,
                 flatState, listLen, amount, segments_pos, curves, status>>

(* lines 515-534 *)
PatchCollapseOpen ==
  /\ pcQ = "innerOpen"
  /\ calls' = calls \o <<"vtxLoopOrderCheck", "get_shortest_edge",
                         "segmentsPositions_adaptive", "polyCollapseEdge">>
  /\ \E len \in 2..(amount + 1) : listLen' = len
  /\ pcQ' = "borderOpen"
  /\ UNCHANGED <<selEdges, ringVars, orderVars, segVars, openVars, posVars,
                 flatVars, handler, selCount, checkLoopSize, getCircleState,
                 flatState, amount, segments_pos, curves, status>>

(* line 535: initialVerts from the border part of the inner loop *)
PatchBorderOpen ==
  /\ pcQ = "borderOpen"
  /\ calls' = Append(calls, "vtxLoopOrderCheck")
  /\ pcQ' = "splitOpen"
  /\ UNCHANGED <<selEdges, ringVars, orderVars, segVars, openVars, posVars,
                 flatVars, handler, selCount, checkLoopSize, getCircleState,
                 flatState, listLen, amount, segments_pos, curves, status>>

(* line 539: initialVerts from the selection *)
PatchEvenOpen ==
  /\ pcQ = "evenOpen" /\ selCount > 0
  /\ calls' = Append(calls, "vtxLoopOrderCheck")
  /\ pcQ' = "splitOpen"
  /\ UNCHANGED <<selEdges, ringVars, orderVars, segVars, openVars, posVars,
                 flatVars, handler, selCount, checkLoopSize, getCircleState,
                 flatState, listLen, amount, segments_pos, curves, status>>

(* lines 536-537 and 540-541: the loop to split, then segmentsPositions *)
PatchSplitOpen ==
  /\ pcQ = "splitOpen"
  /\ calls' = calls \o <<"vtxLoopOrderCheck", "segmentsPositions">>
  /\ \E len \in 2..(amount + 1) :
       /\ listLen' = len
       /\ segments_pos' \in PositionsCounts(len)
  /\ pcQ' = "curves"
  /\ UNCHANGED <<selEdges, ringVars, orderVars, segVars, openVars, posVars,
                 flatVars, handler, selCount, checkLoopSize, getCircleState,
                 flatState, amount, curves, status>>

(* lines 544-548 *)
PatchExtrudeClosed ==
  /\ pcQ = "closed" /\ Odd(amount)
  /\ calls' = calls \o <<"get_shortest_edge", "polyExtrudeEdge">>
  /\ pcQ' = "innerClosed"
  /\ UNCHANGED <<selEdges, ringVars, orderVars, segVars, openVars, posVars,
                 flatVars, handler, selCount, checkLoopSize, getCircleState,
                 flatState, listLen, amount, segments_pos, curves, status>>

(* lines 549-564; selEdge becomes the inner loop, one edge shorter *)
PatchCollapseClosed ==
  /\ pcQ = "innerClosed"
  /\ calls' = calls \o <<"vtxLoopOrderCheck", "segmentsPositions_adaptive",
                         "get_shortest_edge", "polyCollapseEdge">>
  /\ \E len \in 2..(amount + 1) : listLen' = len
  /\ selCount' = amount - 1
  /\ pcQ' = "segmentClosed"
  /\ UNCHANGED <<selEdges, ringVars, orderVars, segVars, openVars, posVars,
                 flatVars, handler, checkLoopSize, getCircleState, flatState,
                 amount, segments_pos, curves, status>>

(* lines 565-566 *)
PatchSegmentClosed ==
  /\ (pcQ = "closed" /\ ~ Odd(amount)) \/ pcQ = "segmentClosed"
  /\ calls' = calls \o <<"vtxLoopOrderCheck", "segmentsPositions_adaptive">>
  /\ \E len \in 2..(selCount + 1) :
       /\ listLen' = len
       /\ segments_pos' = AdaptiveCount(len)
  /\ pcQ' = "curves"
  /\ UNCHANGED <<selEdges, ringVars, orderVars, segVars, openVars, posVars,
                 flatVars, handler, selCount, checkLoopSize, getCircleState,
                 flatState, amount, curves, status>>

(* instantQPatchOpen lines 154-157 *)
PatchOpenOrder ==
  /\ pcQ = "order" /\ handler = "instantQPatchOpen"
  /\ \E st \in {0, 1} : \E len \in 2..(selCount + 1) : \E f \in {0, 1} :
       /\ st = 1 => selCount >= 3
       /\ getCircleState' = st
       /\ listLen' = len
       /\ flatState' = f
       /\ pcQ' = IF st # 0 THEN "done"
                 ELSE IF f = 0 THEN "adaptiveOpen" ELSE "flatOpen"
  /\ calls' = calls \o <<"vtxLoopOrderCheck", "checkFlatLoop">>
  /\ status' = IF pcQ' = "done" THEN "returned" ELSE status
  /\ UNCHANGED <<selEdges, ringVars, orderVars, segVars, openVars, posVars,
                 flatVars, handler, selCount, checkLoopSize, amount,
                 segments_pos, curves>>

(* lines 158-159 *)
PatchAdaptiveOpen ==
  /\ pcQ = "adaptiveOpen"
  /\ calls' = calls \o <<"vtxLoopOrderCheck", "segmentsAdaptiveOpen">>
  /\ \E len \in 2..(selCount + 1) :
       /\ listLen' = len
       /\ segments_pos' = OpenCount(len)
  /\ pcQ' = "curves"
  /\ UNCHANGED <<selEdges, ringVars, orderVars, segVars, openVars, posVars,
                 flatVars, handler, selCount, checkLoopSize, getCircleState,
                 flatState, amount, curves, status>>

(* lines 161-183: with more inner than border edges nothing is segmented,  *)
(* otherwise the selection is replaced and cut into three by index         *)
PatchFlatOpen ==
  /\ pcQ = "flatOpen"
  /\ \E innerMore \in BOOLEAN :
       IF innerMore
         THEN UNCHANGED <<selCount, listLen, segments_pos, calls>>
         ELSE \E newSel \in 1..MaxSel : \E len \in 2..(newSel + 1) :
                /\ selCount' = newSel
                /\ listLen' = len
                /\ segments_pos' = 3
                /\ calls' = Append(calls, "vtxLoopOrderCheck")
  /\ pcQ' = "curves"
  /\ UNCHANGED <<selEdges, ringVars, orderVars, segVars, openVars, posVars,
                 flatVars, handler, checkLoopSize, getCircleState, flatState,
                 amount, curves, status>>

(* create_segment_curves: one mc.curve per entry of segments_pos *)
CurveCalls(k) == [i \in 1..k |-> "curve"]

(* lines 567-578 and 185-204: the curves, then the builder on             *)
(* curves[0] .. curves[k-1] and the merge of the new patch                 *)
PatchCurves ==
  /\ pcQ = "curves"
  /\ curves' = segments_pos
  /\ IF segments_pos = 0
       THEN calls' = calls /\ status' = "returned"
       ELSE IF segments_pos < PatchK(handler)
         THEN calls' = calls \o CurveCalls(segments_pos) /\ status' = "raised"
         ELSE /\ calls' = calls \o CurveCalls(segments_pos)
                                \o <<Builder(handler)>>
              /\ status' = "returned"
  /\ pcQ' = "done"
  /\ UNCHANGED <<selEdges, ringVars, orderVars, segVars, openVars, posVars,
                 flatVars, handler, selCount, checkLoopSize, getCircleState,
                 flatState, listLen, amount, segments_pos>>

NextPatch ==
  \/ PatchEmpty \/ PatchRings \/ PatchRaise \/ PatchOrder \/ PatchFullLoop
  \/ PatchExtrudeOpen \/ PatchCollapseOpen \/ PatchBorderOpen
  \/ PatchEvenOpen \/ PatchSplitOpen
  \/ PatchExtrudeClosed \/ PatchCollapseClosed \/ PatchSegmentClosed
  \/ PatchOpenOrder \/ PatchAdaptiveOpen \/ PatchFlatOpen \/ PatchCurves

SpecPatch == InitPatch /\ [][NextPatch]_vars

(* ---------------------- properties of the handlers --------------------- *)
Called(c) == \E i \in DOMAIN calls : calls[i] = c

ParityCorrection == {"get_shortest_edge", "polyExtrudeEdge", "polyCollapseEdge"}

Segmenters ==
  {"segmentsPositions_adaptive", "segmentsPositions", "segmentsAdaptiveOpen"}

(* C14: a step of the parity correction (shortest-edge lookup, extrude,    *)
(* collapse) has run only if a closed loop with an odd edge count was      *)
(* found; when instantQPatch returns after finding a closed loop with an   *)
(* even edge count, none of these steps has run and a segmenter has.       *)
ParityCorrectionOnlyWhenOdd ==
  /\ (\E c \in ParityCorrection : Called(c))
       => (handler = "instantQPatch" /\ amount > 0 /\ amount % 2 = 1)
  /\ (pcQ = "done" /\ status = "returned" /\ amount > 0 /\ amount % 2 = 0)
       => /\ \A c \in ParityCorrection : ~ Called(c)
          /\ \E s \in Segmenters : Called(s)

ParityCorrectionOnlyWhenOddWitness ==
  /\ pcQ = "done" /\ status = "returned" /\ handler = "instantQPatch"
  /\ getCircleState = 1 /\ amount = 5
  /\ \A c \in ParityCorrection : Called(c)
  /\ Called("boundary")

(* C15: when the handler ends on an empty edge selection, a failure has    *)
(* been surfaced to the caller and no operation was attempted (no ring     *)
(* reconstruction, loop ordering, segmentation or builder call).           *)
EmptySelectionIsSurfaced ==
  (pcQ = "done" /\ selCount = 0 /\ checkLoopSize = 0)
    => (status = "raised" /\ calls = <<>>)

Count(c) == Cardinality({i \in DOMAIN calls : calls[i] = c})

Builders == {"boundary", "singleProfileBirailSurface"}

(* C20: the patch-surface builder is called only after                     *)
(* getEdgeRingGroupList returned exactly one ring, only by its own handler *)
(* and only on a complete set of k curves (4 for mc.boundary, 3 for the    *)
(* birail call); when the handler ends with a ring count other than 1 or   *)
(* with no segments, no curve was created and no builder was called.       *)
BuilderCallIsGuarded ==
  /\ \A i \in DOMAIN calls :
       calls[i] \in Builders =>
         /\ calls[i] = Builder(handler)
         /\ checkLoopSize = 1
         /\ \E j \in 1..(i - 1) : calls[j] = "getEdgeRingGroupList"
         /\ curves = (IF calls[i] = "boundary" THEN 4 ELSE 3)
         /\ Cardinality({j \in 1..(i - 1) : calls[j] = "curve"}) = curves
         /\ Count(calls[i]) = 1
  /\ (pcQ = "done" /\ (checkLoopSize # 1 \/ segments_pos = 0))
       => (Count("curve") = 0 /\ \A b \in Builders : Count(b) = 0)

BuilderCallIsGuardedWitness ==
  /\ pcQ = "done" /\ handler = "instantQPatchOpen"
  /\ checkLoopSize = 1 /\ flatState = 0 /\ curves = 3
  /\ Count("curve") = 3 /\ calls[Len(calls)] = "singleProfileBirailSurface"

(* ------------------------------ checkFlatLoop -------------------------- *)
(* As for the open segmenter, angle[i] is the angle measured at index i    *)
(* and the entries of the two ends, where nothing is measured, are 90.     *)
MaxFlatN == 6

(* flat_threshold: 5 at the call in instantQPatchOpen *)
FlatThresholds == {5, 40}

FlatAnglesMeasured(a) == a

(* lines 20-41: angle = 180.0 at i == 0 and i == n - 1 *)
FlatAngles(a) ==
  [i \in DOMAIN a |-> IF i = 1 \/ i = Len(a) THEN 180 ELSE a[i]]

(* abs_diffs = [abs(angles[i] - angles[i+1]) for i in range(len(angles)-1)] *)
AbsDiffs(a) ==
  [i \in 1..(Len(a) - 1) |->
     IF a[i] >= a[i + 1] THEN a[i] - a[i + 1] ELSE a[i + 1] - a[i]]

RECURSIVE Sum(_)
Sum(s) == IF s = <<>> THEN 0 ELSE Head(s) + Sum(Tail(s))

(* lines 44-48; sum / len < flat_threshold compared multiplied by len *)
FlatVerdict(a, threshold) ==
  LET abs_diffs == AbsDiffs(a)
  IN IF abs_diffs = <<>> THEN 0
     ELSE IF Sum(abs_diffs) < threshold * Len(abs_diffs) THEN 1 ELSE 0

InitFlat ==
  /\ \E n \in 0..MaxFlatN :
       angle \in {a \in [1..n -> OpenAngles] :
                    \A i \in 1..n : (i = 1 \/ i = n) => a[i] = 90}
  /\ flat_threshold \in FlatThresholds
  /\ angles = <<>> /\ isFlat = 0 /\ pcF = "start"
  /\ similarity_threshold = 0 /\ corner_threshold = 0
  /\ corner_idxs = <<>> /\ init_segments = <<>> /\ segments = <<>>
  /\ pcS = "idle"
  /\ selEdges = <<>> /\ RingIdle /\ OrderIdle
  /\ OpenIdle /\ PosIdle /\ PatchIdle

(* lines 18-41 *)
FlatMeasure ==
  /\ pcF = "start"
  /\ angles' = FlatAngles(angle)
  /\ pcF' = "measured"
  /\ UNCHANGED <<selEdges, ringVars, orderVars, segVars, openVars, posVars,
                 patchVars, flat_threshold, isFlat>>

(* lines 42-48 *)
FlatReturn ==
  /\ pcF = "measured"
  /\ isFlat' = FlatVerdict(angles, flat_threshold)
  /\ pcF' = "done"
  /\ UNCHANGED <<selEdges, ringVars, orderVars, segVars, openVars, posVars,
                 patchVars, flat_threshold, angles>>

NextFlat == FlatMeasure \/ FlatReturn

SpecFlat == InitFlat /\ [][NextFlat]_vars

(* ---------------------- properties of checkFlatLoop -------------------- *)
(* the sum over i = 1 .. k of |a[i] - a[i+1]| *)
RECURSIVE Variation(_, _)
Variation(a, k) ==
  IF k = 0 THEN 0
  ELSE Variation(a, k - 1) +
       (IF a[k] >= a[k + 1] THEN a[k] - a[k + 1] ELSE a[k + 1] - a[k])

(* C16: checkFlatLoop works on the measured angles with 180 put at the     *)
(* first and the last index, and returns 1 exactly when the loop has at    *)
(* least 2 vertices and the mean absolute difference of consecutive angles *)
(* is strictly below flat_threshold; with 0 or 1 vertices it returns 0.    *)
FlatLoopVerdict ==
  pcF = "done" =>
    /\ Len(angles) = N
    /\ \A i \in 1..N :
         angles[i] = (IF i = 1 \/ i = N THEN 180 ELSE angle[i])
    /\ isFlat \in {0, 1}
    /\ isFlat = 1 <=>
         (N >= 2 /\ Variation(angles, N - 1) < flat_threshold * (N - 1))
    /\ N <= 1 => isFlat = 0

(* five angles whose mean difference is exactly the threshold: not flat *)
FlatLoopVerdictWitness ==
  /\ pcF = "done" /\ flat_threshold = 5
  /\ angles = <<180, 180, 170, 180, 180>>
  /\ isFlat = 0

(* ------- further properties of segmentsPositions_adaptive -------------- *)
First(s) == s[1]

Last(s) == s[Len(s)]

(* s lists consecutive vertices of the closed loop of n vertices *)
IsCyclicRun(s, n) ==
  /\ Len(s) >= 1
  /\ \A i \in 1..(Len(s) - 1) : s[i + 1] = (s[i] + 1) % n

(* C17: for n >= 4 the four returned segments form a closed chain (the     *)
(* last vertex of each is the first vertex of the next, and the last of    *)
(* segment 3 is the first of segment 0), each is a run of consecutive loop *)
(* vertices, and every loop vertex is in at least one segment.             *)
SegmentsFormClosedChain ==
  (pcS = "done" /\ N >= 4) =>
    /\ Len(segments) = 4
    /\ \A k \in 1..4 : IsCyclicRun(segments[k], N)
    /\ \A k \in 1..4 : Last(segments[k]) = First(segments[(k % 4) + 1])
    /\ UNION {Range(segments[k]) : k \in 1..4} = 0..(N - 1)

(* an odd loop with unevenly spaced corners *)
SegmentsFormClosedChainWitness ==
  /\ pcS = "done" /\ N = 7
  /\ corner_idxs = <<0, 1, 2, 6>>
  /\ segments = <<<<0, 1>>, <<1, 2, 3>>, <<3, 4>>, <<4, 5, 6, 0>>>>

(* ----------- further properties of segmentsAdaptiveOpen ---------------- *)
IsRun(s) == Len(s) >= 1 /\ \A i \in 1..(Len(s) - 1) : s[i + 1] = s[i] + 1

(* C18: in the generic split (the number of interior vertices within the   *)
(* corner threshold is not 2) the three segments are runs of consecutive   *)
(* vertices between consecutive corners: every segment endpoint is a loop  *)
(* endpoint or a returned corner, and the middle segment shares exactly    *)
(* one vertex with each end segment.                                       *)
GenericSplitFollowsCorners ==
  (pcA = "done" /\ N >= 3 /\ Cardinality(WithinCornerThreshold) # 2) =>
    LET marks == {0, N - 1} \cup Range(corner_idxs)
        middle == init_segments[1]
        head == init_segments[2]
        tail == init_segments[3]
    IN /\ Len(init_segments) = 3
       /\ \A k \in 1..3 :
            /\ IsRun(init_segments[k])
            /\ First(init_segments[k]) \in marks
            /\ Last(init_segments[k]) \in marks
       /\ Cardinality(Range(head) \cap Range(middle)) = 1
       /\ Cardinality(Range(middle) \cap Range(tail)) = 1

(* ------ the corner rule of segmentsPositions_adaptive, restated -------- *)
(* C is a choice of k members of Q with the lowest deviation, ties going   *)
(* to the lower index: no member left out beats a chosen one               *)
IsLowestChoice(C, Q, k) ==
  /\ C \subseteq Q /\ Cardinality(C) = k
  /\ \A c \in C : \A q \in Q \ C :
       \/ Deviation(angle[c + 1]) < Deviation(angle[q + 1])
       \/ (Deviation(angle[c + 1]) = Deviation(angle[q + 1]) /\ c < q)

(* C19: the corners are floor(i*n/4), i = 0..3, when the deviations lie    *)
(* within similarityThreshold of each other; otherwise they are the 4      *)
(* lowest-deviation vertices among those within cornerThreshold if there   *)
(* are at least 4 of these, else the 4 lowest-deviation vertices overall   *)
(* (ties to the lower index); in both cases in loop order.                 *)
CornersFollowReferenceRule ==
  (pcS = "done" /\ N >= 4) =>
    LET devs == {Deviation(angle[i]) : i \in 1..N}
        similar == \A x, y \in devs : x - y <= similarity_threshold
        qualifying ==
          {i \in 0..(N - 1) : Deviation(angle[i + 1]) <= corner_threshold}
    IN /\ Len(corner_idxs) = 4
       /\ \A i, j \in 1..4 : i < j => corner_idxs[i] < corner_idxs[j]
       /\ similar => \A i \in 0..3 :
                       /\ 4 * corner_idxs[i + 1] <= i * N
                       /\ i * N < 4 * (corner_idxs[i + 1] + 1)
       /\ (~ similar /\ Cardinality(qualifying) >= 4)
            => IsLowestChoice(Range(corner_idxs), qualifying, 4)
       /\ (~ similar /\ Cardinality(qualifying) < 4)
            => IsLowestChoice(Range(corner_idxs), 0..(N - 1), 4)

(* five vertices qualify and a tie at deviation 45 goes to the lower index *)
CornersFollowReferenceRuleWitness ==
  /\ pcS = "done" /\ N = 7 /\ corner_threshold = 55
  /\ angle = <<45, 170, 45, 90, 45, 170, 45>>
  /\ corner_idxs = <<0, 2, 3, 4>>

(* ------------- termination of getEdgeRingGroupList --------------------- *)

(* getEdgeRingGroupList is straight-line sequential code: the interpreter  *)
(* always executes the next statement, so a step that is enabled is taken. *)
SpecRingFair == InitRing /\ [][NextRing]_vars /\ WF_vars(NextRing)

(* an iteration of the inner while True that does not leave the loop       *)
WalkIteration == pcR = "walk" /\ pcR' = "walk" /\ dirIdx' = dirIdx

(* C21: getEdgeRingGroupList terminates on every finite edge list,         *)
(* branching and cyclic input included: every iteration of the inner walk  *)
(* loop that does not exit removes exactly one edge from e2v, so the       *)
(* number of walk steps never exceeds the number of input edges, and the   *)
(* function always returns.                                                *)
RingWalkTerminates ==
  /\ [][WalkIteration =>
          /\ Cardinality(DOMAIN e2v') = Cardinality(DOMAIN e2v) - 1
          /\ walkSteps' = walkSteps + 1]_vars
  /\ [](walkSteps + Cardinality(DOMAIN e2v) <= Len(selEdges))
  /\ <>(pcR = "done")

RingWalkTerminatesWitness ==
  /\ pcR = "done"
  /\ HasBranch(selEdges)
  /\ \E S \in SUBSET (DOMAIN selEdges) :
        /\ Cardinality(S) >= 3
        /\ IsSimpleCycle([i \in 1..Cardinality(S) |->
              selEdges[CHOOSE e \in S :
                         Cardinality({d \in S : d < e}) = i - 1]])
  /\ walkSteps = Len(selEdges) - 1

(* C22: for every open loop of n >= 3 vertices and every angle data,       *)
(* segmentsAdaptiveOpen returns exactly three segments, each a non-empty   *)
(* run of consecutive loop vertices, in the order [middle, first end span, *)
(* second end span]: the first end span lies on the head side and ends     *)
(* where the middle begins, the second end span lies on the tail side and  *)
(* begins where the middle ends (or one vertex before), and the two end    *)
(* spans have the same number of vertices, in the two-sharp-corner case    *)
(* and in the generic split alike.                                         *)
ThreeSegmentsEqualEnds ==
  (pcA = "done" /\ N >= 3) =>
    /\ Len(init_segments) = 3
    /\ \A k \in 1..3 : IsRun(init_segments[k])
    /\ \A k \in 1..3 : Range(init_segments[k]) \subseteq 0..(N - 1)
    /\ Last(init_segments[2]) = First(init_segments[1])
    /\ First(init_segments[3]) \in
         {Last(init_segments[1]) - 1, Last(init_segments[1])}
    /\ Len(init_segments[2]) = Len(init_segments[3])

(* the generic split of a loop whose length leaves remainder 1, where the  *)
(* three lengths differ before the swap                                    *)
ThreeSegmentsEqualEndsWitness ==
  /\ pcA = "done" /\ N = 7
  /\ Cardinality(sharp) # 2
  /\ init_segments = <<<<1, 2, 3, 4, 5>>, <<0, 1>>, <<4, 5>>>>


(* ------------- further properties of segmentsPositions ----------------- *)

(* some run of len(initial_verts) cyclically consecutive loop vertices has *)
(* exactly the vertex set of initial_verts                                 *)
HasMatchingRun ==
  \E s \in 1..Len(vtx_list) :
    {vtx_list[((s + j - 1) % Len(vtx_list)) + 1] :
        j \in 0..(Len(initial_verts) - 1)} = Range(initial_verts)

ReturnsNothing ==
  \/ Len(vtx_list) < 4
  \/ initial_verts = <<>>
  \/ ~ HasMatchingRun
  \/ Len(initial_verts) > Len(vtx_list) \div 2

(* C23: segmentsPositions returns no segments when n < 4, when             *)
(* initial_verts is empty, when no run of len(initial_verts) cyclically    *)
(* consecutive loop vertices has the vertex set of initial_verts, or when  *)
(* len(initial_verts) > n // 2; in every other case it returns four        *)
(* segments, the first of which is a cyclically contiguous run of the loop *)
(* whose vertex set is set(initial_verts).                                 *)
PositionsReturn ==
  pcP = "done" =>
    IF ReturnsNothing
      THEN segments = <<>>
      ELSE /\ Len(segments) = 4
           /\ IsCyclicRun(segments[1], Len(vtx_list))
           /\ Len(segments[1]) = Len(initial_verts)
           /\ Range(segments[1]) = Range(initial_verts)

(* the initial vertices given against the loop direction, across the seam  *)
PositionsReturnWitness ==
  /\ pcP = "done"
  /\ Len(vtx_list) = 6 /\ initial_verts = <<0, 5, 4>>
  /\ segments[1] = <<4, 5, 0>>
  /\ Len(segments) = 4


(* -------- the anchor length of segmentsPositions_adaptive -------------- *)

(* larger loops with four right-angle vertices among near-straight ones    *)
(* (rounded rectangles): the four right angles are the corners, so every   *)
(* choice of four different corner indices occurs                          *)
InitSegFourCorners ==
  /\ \E n \in (MaxN + 1)..MaxCornerN :
       \E C \in {c \in SUBSET (0..(n - 1)) : Cardinality(c) = 4} :
          angle = [i \in 1..n |-> IF (i - 1) \in C THEN 90 ELSE 170]
  /\ \E t \in Thresholds : similarity_threshold = t[1] /\ corner_threshold = t[2]
  /\ corner_idxs = <<>> /\ init_segments = <<>> /\ segments = <<>>
  /\ pcS = "start"
  /\ selEdges = <<>> /\ RingIdle /\ OrderIdle /\ OtherIdle

SpecAnchor == (InitSegAll \/ InitSegFourCorners) /\ [][NextSeg]_vars

AbsVal(x) == IF x < 0 THEN -x ELSE x

(* len is the length of a corner-to-corner run closest to n / 4 *)
IsAnchorLength(len) ==
  /\ \E k \in 1..4 : Len(init_segments[k]) = len
  /\ \A k \in 1..4 :
        AbsVal(4 * len - N) <= AbsVal(4 * Len(init_segments[k]) - N)

(* C24: for every closed loop of n >= 4 vertices and every set of four     *)
(* different corner indices, the anchor length len0 (the length of the     *)
(* corner-to-corner run closest to n / 4) satisfies 2 <= len0 <= n // 2,   *)
(* so len1 = n // 2 - len0 is not negative, no slice is cut short by the   *)
(* end of the rotated loop (the four segments have len0, len1 + 2, len0    *)
(* and n - n // 2 - len0 + 2 vertices) and every returned segment has at   *)
(* least 2 vertices.                                                       *)
AnchorLengthBounded ==
  (pcS = "done" /\ N >= 4) =>
    LET len0 == Len(segments[1])
        half == N \div 2
        len1 == half - len0
    IN /\ Cardinality(Range(corner_idxs)) = 4
       /\ IsAnchorLength(len0)
       /\ 2 <= len0 /\ len0 <= half
       /\ len1 >= 0
       /\ Len(segments) = 4
       /\ Len(segments[2]) = len1 + 2
       /\ Len(segments[3]) = len0
       /\ Len(segments[4]) = N - half - len0 + 2
       /\ \A k \in 1..4 : Len(segments[k]) >= 2

(* four corners next to each other on a loop of 12: three runs of 2 and    *)
(* one of 10 vertices, none of them 3 long                                 *)
AnchorLengthBoundedWitness ==
  /\ pcS = "done" /\ N = 12
  /\ corner_idxs = <<4, 5, 6, 7>>
  /\ Len(init_segments[4]) = 10
  /\ Len(segments[1]) = 2 /\ Len(segments[2]) = 6
====
